---- MODULE Spec2Model ----
(***************************************************************************)
(* The IFC -> Fragments conversion backend: the converter service          *)
(* (services/ifc-converter.ts), the POST /api/convert and GET /api/status  *)
(* routes (routes/convert.ts), the staged-file helpers                     *)
(* (utils/file-utils.ts) and the error-handling middleware                 *)
(* (middleware/error-handler.ts).                                          *)
(*                                                                         *)
(* JavaScript values are modelled as follows.  A file name or form value   *)
(* is a sequence of one-character strings; an optional string is a record  *)
(* [present, v]; an optional boolean is a record [present, b].  A message  *)
(* of an Error is a TLA+ string.  A falsy statusCode is 0, a falsy status  *)
(* is "".  The engine handle is a natural number: 0 is null, e > 0 is the  *)
(* e-th IfcImporter constructed by the process.                            *)
(***************************************************************************)
EXTENDS Integers, Sequences, FiniteSets, TLC

\* ------------------------------------------------------------------ bounds

MaxEngines == 2      \* IfcImporter instances constructed in one run
MaxClock == 1        \* Date.now() ranges over 0..MaxClock
MaxRnd == 1          \* Math.round(Math.random() * 1e9) ranges over 0..MaxRnd
MaxOut == 1          \* byte length of the engine's output: 0..MaxOut
MaxSignals == 2      \* termination signals delivered to the process

\* ------------------------------------------------------- program constants

FileSizeLimit == 104857600

\* ----------------------------------------------------------------- callers

\* The clients that send POST /api/convert, and the callers that use the
\* exported converter without HTTP (the test suite, the server's start-up).
Requests == {1}
Direct == {2, 3}

\* A second client, in the runs with two concurrent requests.
Peers == {4}
Clients == Requests \cup Peers
Callers == Clients \cup Direct

\* ------------------------------------------------------------ JS values

Undef == [present |-> FALSE, v |-> <<>>]
Str(s) == [present |-> TRUE, v |-> s]
UndefB == [present |-> FALSE, b |-> FALSE]
Bool(x) == [present |-> TRUE, b |-> x]

DotIfc == <<".", "i", "f", "c">>

\* String.prototype.toLowerCase on the characters the model uses.
LowerChar(c) ==
  CASE c = "I" -> "i"
    [] c = "F" -> "f"
    [] c = "C" -> "c"
    [] c = "M" -> "m"
    [] OTHER -> c

toLowerCase(s) == [i \in 1..Len(s) |-> LowerChar(s[i])]

\* String.prototype.endsWith
endsWith(s, suffix) ==
  /\ Len(s) >= Len(suffix)
  /\ SubSeq(s, Len(s) - Len(suffix) + 1, Len(s)) = suffix

\* The positions at which pat occurs in s.
Occurrences(s, pat) ==
  {i \in 1..(Len(s) - Len(pat) + 1) : SubSeq(s, i, i + Len(pat) - 1) = pat}

\* String.prototype.replace with a string pattern: the first occurrence only.
replace(s, pat, by) ==
  IF Occurrences(s, pat) = {} THEN s
  ELSE LET i == CHOOSE k \in Occurrences(s, pat) :
                  \A j \in Occurrences(s, pat) : k <= j
       IN SubSeq(s, 1, i - 1) \o by \o SubSeq(s, i + Len(pat), Len(s))

\* ------------------------------------------------- middleware/error-handler

\* An error object as the error handler reads it (interface AppError).
MkError(name, message, statusCode, status, isOperational, hasBody) ==
  [name |-> name, message |-> message, statusCode |-> statusCode,
   status |-> status, isOperational |-> isOperational, hasBody |-> hasBody]

NoError == MkError("", "", 0, "", FALSE, FALSE)

\* new Error(message), and the errors of fs: no statusCode, status or
\* isOperational.
PlainError(message) == MkError("Error", message, 0, "", FALSE, FALSE)

\* new ApiError(message, statusCode)
ApiError(message, statusCode) ==
  MkError("Error", message, statusCode,
          IF statusCode >= 400 /\ statusCode < 500 THEN "fail" ELSE "error",
          TRUE, FALSE)

\* The error multer passes to next(): name "MulterError", no statusCode.
MulterError(message) == MkError("MulterError", message, 0, "", FALSE, FALSE)

NoMeta ==
  [name |-> Undef, timestamp |-> 0, size |-> 0,
   options |-> [name |-> Undef, coordinateToOrigin |-> UndefB]]

\* A response: code 0 and kind "none" while nothing has been sent.
NoResp ==
  [code |-> 0, kind |-> "none", status |-> "", message |-> "", stack |-> FALSE,
   filename |-> <<>>, contentLength |-> 0, body |-> <<>>, metadata |-> NoMeta]

JsonFault(code, status, message, stack) ==
  [NoResp EXCEPT !.code = code, !.kind = "json", !.status = status,
                 !.message = message, !.stack = stack]

\* The message of the general branch of errorHandler.
FaultMessage(err) ==
  IF err.isOperational THEN err.message ELSE "Internal server error"

\* Variant: the stack is part of the body whatever the mode.
StackIncludedAlways(env) == TRUE

\* process.env.NODE_ENV !== "production" && { stack: err.stack }
StackIncluded(env) == env # "production"

\* errorHandler(err, req, res, next) under NODE_ENV = env.
errorHandler(err, env) ==
  LET statusCode == IF err.statusCode # 0 THEN err.statusCode ELSE 500
      status == IF err.status # "" THEN err.status ELSE "error"
  IN IF err.name = "MulterError"
     THEN JsonFault(400, "fail", "File upload error: " \o err.message, FALSE)
     ELSE IF err.name = "SyntaxError" /\ err.hasBody
     THEN JsonFault(400, "fail", "Invalid JSON in request body", FALSE)
     ELSE JsonFault(statusCode, status, FaultMessage(err), StackIncluded(env))

\* notFoundHandler(req, res) for req.originalUrl = url
notFoundHandler(url) ==
  JsonFault(404, "fail", "Route " \o url \o " not found", FALSE)

\* ------------------------------------------------------------------ state

VARIABLES
  nodeEnv,        \* process.env.NODE_ENV
  routeVariant,   \* which of the two versions of routes/convert.ts is deployed
  now,            \* the reading of Date.now()
  ifcImporter,    \* IfcToFragmentsConverter.ifcImporter: 0 is null
  constructed,    \* how many IfcImporter instances were constructed
  engineSetting,  \* webIfcSettings.COORDINATE_TO_ORIGIN of each instance
  lastOp,         \* the last initialize() or cleanup() call and how it ended
  conv,           \* the convert() call of each caller
  req,            \* the POST /api/convert request of each client
  disk,           \* uploads/: staging path -> the file stored there
  statusProbe,    \* the last GET /api/status response and the converter then
  err,            \* an error object handed to the error-handling middleware
  errResp,        \* the response the middleware gave for it
  proc            \* the server process of index.ts: server, timers, exit code

vars ==
  <<nodeEnv, routeVariant, now, ifcImporter, constructed, engineSetting,
    lastOp, conv, req, disk, statusProbe, err, errResp, proc>>

converterVars == <<ifcImporter, constructed, engineSetting, lastOp>>
httpVars == <<req, disk, statusProbe>>
errVars == <<err, errResp>>
envVars == <<nodeEnv, routeVariant>>

\* The process before startServer() has run: no server, no timer armed, no
\* exit code (-1 while the process runs), no client connection given up, no
\* 'uncaughtException' or 'unhandledRejection' event logged.
NoProc ==
  [server |-> "none", timers |-> 0, exitCode |-> -1, cleanedUp |-> FALSE,
   aborted |-> {}, logged |-> {}]

\* ------------------------------------------------ services/ifc-converter

NotInitializedMsg == "IFC importer not initialized. Call initialize() first."
ConversionErrorMsg(m) == "Failed to convert IFC to Fragments: " \o m
InitializationErrorMsg(m) == "Failed to initialize IFC importer: " \o m

\* The ways the engine can fail inside initialize(): in its constructor
\* (line 16), while wasm is configured (lines 17-18, before webIfcSettings
\* is assigned) or while classes and relations are configured (lines 24-59).
InitFaults == {"none", "construct", "wasm", "classes"}

EngineMsgs == {"boom"}
Bytes == {7}
Outputs == UNION {[1..n -> Bytes] : n \in 0..MaxOut}

NoData == [owner |-> 0, size |-> 0]
NoOptions == [name |-> Undef, coordinateToOrigin |-> UndefB]
NoResult == [produced |-> FALSE, data |-> <<>>, metadata |-> NoMeta]
NoConv ==
  [st |-> "idle", engine |-> 0, ifcData |-> NoData, options |-> NoOptions,
   start |-> 0, result |-> NoResult, error |-> ""]

\* Variant: the guard only notices a converter that was never initialized.
NotInitializedNever(imp) == constructed = 0

\* if (!this.ifcImporter)
NotInitialized(imp) == imp = 0

\* Variant: initialize() constructs the engine without storing the handle.
InitHandleDropped(fault, old, fresh) == old

\* Variant: initialize() keeps the handle it already has.
InitHandleOnce(fault, old, fresh) ==
  IF fault = "construct" \/ old # 0 THEN old ELSE fresh

\* The handle after initialize(): the assignment of line 16 happens unless
\* the constructor throws.
InitHandle(fault, old, fresh) == IF fault = "construct" THEN old ELSE fresh

\* COORDINATE_TO_ORIGIN of the instance initialize() leaves behind: the
\* constructor's own webIfcSettings has none until line 19 assigns it.
InitSetting(fault) == IF fault = "wasm" THEN UndefB ELSE Bool(TRUE)

\* The error initialize() throws: only what its try block caught.
InitError(fault, old) ==
  IF fault = "none" THEN "" ELSE InitializationErrorMsg("engine fault")

\* Variant: cleanup() does not release the reference.
CleanupHandleKept(imp) == imp

\* The handle after cleanup().
CleanupHandle(imp) == IF imp # 0 THEN 0 ELSE imp

\* Variant: the override is a parameter of the call and the shared
\* configuration is left alone.
ApplySettingIsolated(cur, options) == cur

\* Variant: the override is written only when it is truthy.
ApplySettingTruthy(cur, options) ==
  IF options.coordinateToOrigin.present /\ options.coordinateToOrigin.b
  THEN Bool(TRUE)
  ELSE cur

\* The per-call override of lines 76-81.
ApplySetting(cur, options) ==
  IF options.coordinateToOrigin.present
  THEN Bool(options.coordinateToOrigin.b)
  ELSE cur

\* Variant: size is taken from the input instead of the output.
MetadataInputSize(ifcData, options, out, t) ==
  [name |-> options.name, timestamp |-> t, size |-> ifcData.size,
   options |-> options]

\* metadata of a ConversionResult, stamped at time t (lines 90-95).
Metadata(ifcData, options, out, t) ==
  [name |-> options.name, timestamp |-> t, size |-> Len(out),
   options |-> options]

\* An engine is reachable while it is the handle or a call is in flight on it;
\* an unreachable instance is garbage and has no setting any more.
Reachable(e, handle, calls) ==
  \/ e = handle
  \/ \E c \in Callers : calls[c].st = "inflight" /\ calls[c].engine = e

Collect(settings, handle, calls) ==
  [e \in DOMAIN settings |->
     IF Reachable(e, handle, calls) THEN settings[e] ELSE UndefB]

\* What initialize() does to the converter.
InitializeCall(fault) ==
  /\ fault = "construct" \/ constructed < MaxEngines
  /\ LET fresh == constructed + 1
     IN /\ ifcImporter' = InitHandle(fault, ifcImporter, fresh)
        /\ constructed' = IF fault = "construct" THEN constructed ELSE fresh
        /\ engineSetting' =
             IF fault = "construct" THEN engineSetting
             ELSE Collect([engineSetting EXCEPT ![fresh] = InitSetting(fault)],
                          InitHandle(fault, ifcImporter, fresh), conv)
        /\ lastOp' = [op |-> "initialize", wasReady |-> ifcImporter # 0,
                      err |-> InitError(fault, ifcImporter)]

\* initialize()
Initialize(fault) ==
  /\ InitializeCall(fault)
  /\ UNCHANGED <<now, conv, httpVars, errVars, envVars, proc>>

\* What cleanup() does to the converter.
CleanupCall ==
  /\ ifcImporter' = CleanupHandle(ifcImporter)
  /\ lastOp' = [op |-> "cleanup", wasReady |-> ifcImporter # 0, err |-> ""]
  /\ engineSetting' = Collect(engineSetting, CleanupHandle(ifcImporter), conv)
  /\ UNCHANGED constructed

\* cleanup()
Cleanup ==
  /\ CleanupCall
  /\ UNCHANGED <<now, conv, httpVars, errVars, envVars, proc>>

\* convert(ifcData, options) up to its await: the guard, the override of the
\* shared setting and the dispatch to process() run without interruption.
ConvertCall(c, ifcData, options) ==
  IF NotInitialized(ifcImporter)
  THEN /\ conv' = [conv EXCEPT ![c] =
                     [NoConv EXCEPT !.st = "rejected", !.ifcData = ifcData,
                                    !.options = options, !.start = now,
                                    !.error = NotInitializedMsg]]
       /\ UNCHANGED engineSetting
  ELSE /\ conv' = [conv EXCEPT ![c] =
                     [NoConv EXCEPT !.st = "inflight", !.engine = ifcImporter,
                                    !.ifcData = ifcData, !.options = options,
                                    !.start = now]]
       /\ engineSetting' = [engineSetting EXCEPT ![ifcImporter] =
                              ApplySetting(@, options)]

\* Variant: the result is built only while the handle is still the one the
\* call started with.
ConvertResolvedOnCurrent(c, out) ==
  IF conv[c].engine = ifcImporter
  THEN [conv[c] EXCEPT !.st = "resolved",
                       !.result = [produced |-> TRUE, data |-> out,
                                   metadata |-> Metadata(conv[c].ifcData,
                                                         conv[c].options, out,
                                                         now)]]
  ELSE [conv[c] EXCEPT !.st = "rejected", !.error = NotInitializedMsg]

\* convert() after process() resolved with out.
ConvertResolved(c, out) ==
  [conv[c] EXCEPT !.st = "resolved",
                  !.result = [produced |-> TRUE, data |-> out,
                              metadata |-> Metadata(conv[c].ifcData,
                                                    conv[c].options, out, now)]]

\* convert() after process() rejected with message m.
ConvertRejected(c, m) ==
  [conv[c] EXCEPT !.st = "rejected", !.error = ConversionErrorMsg(m)]

DirectOptions ==
  {NoOptions,
   [name |-> Undef, coordinateToOrigin |-> Bool(TRUE)],
   [name |-> Str(<<"M">>), coordinateToOrigin |-> Bool(FALSE)]}

\* A caller other than the route calls convert().
DirectConvert(c, options) ==
  /\ c \in Direct
  /\ conv[c].st = "idle"
  /\ ConvertCall(c, [owner |-> c, size |-> 1], options)
  /\ UNCHANGED <<ifcImporter, constructed, lastOp, now, httpVars, errVars,
                 envVars, proc>>

\* The engine finishes the call of a direct caller.
DirectResolve(c, out) ==
  /\ c \in Direct
  /\ conv[c].st = "inflight"
  /\ conv' = [conv EXCEPT ![c] = ConvertResolved(c, out)]
  /\ engineSetting' = Collect(engineSetting, ifcImporter, conv')
  /\ UNCHANGED <<ifcImporter, constructed, lastOp, now, httpVars, errVars,
                 envVars, proc>>

DirectReject(c, m) ==
  /\ c \in Direct
  /\ conv[c].st = "inflight"
  /\ conv' = [conv EXCEPT ![c] = ConvertRejected(c, m)]
  /\ engineSetting' = Collect(engineSetting, ifcImporter, conv')
  /\ UNCHANGED <<ifcImporter, constructed, lastOp, now, httpVars, errVars,
                 envVars, proc>>

\* The caller has its result or its error and may call again.
DirectReturn(c) ==
  /\ c \in Direct
  /\ conv[c].st \in {"resolved", "rejected"}
  /\ conv' = [conv EXCEPT ![c] = NoConv]
  /\ UNCHANGED <<converterVars, now, httpVars, errVars, envVars, proc>>

\* Time passes.
Tick ==
  /\ now < MaxClock
  /\ now' = now + 1
  /\ UNCHANGED <<converterVars, conv, httpVars, errVars, envVars, proc>>

\* ---------------------------------------------------------- routes/convert

MkUpload(field, originalname, mimetype, size) ==
  [field |-> field, originalname |-> originalname, mimetype |-> mimetype,
   size |-> size]

\* A request without a file part.
NoUpload == MkUpload("", <<>>, "", 0)

NameIfc == <<"m", ".", "i", "f", "c">>
NameUpper == <<"M", ".", "I", "F", "C">>
NameTxt == <<"m", ".", "t", "x", "t">>

\* The file parts the clients send.
Uploads ==
  {NoUpload,
   MkUpload("wrongfield", NameIfc, "application/octet-stream", 1),
   MkUpload("ifc", NameIfc, "application/octet-stream", 1),
   MkUpload("ifc", NameUpper, "application/octet-stream", 1),
   MkUpload("ifc", NameTxt, "application/x-step", 1),
   MkUpload("ifc", NameTxt, "text/plain", 1),
   MkUpload("ifc", NameIfc, "application/octet-stream", FileSizeLimit),
   MkUpload("ifc", NameIfc, "application/octet-stream", FileSizeLimit + 1)}

FalseText == <<"f", "a", "l", "s", "e">>
TrueText == <<"t", "r", "u", "e">>

MkBody(name, coordinateToOrigin) ==
  [name |-> name, coordinateToOrigin |-> coordinateToOrigin]

NoBody == MkBody(Undef, Undef)

\* The text fields of the multipart form.
Bodies ==
  {MkBody(n, c) : n \in {Undef, Str(<<>>), Str(<<"A">>)},
                  c \in {Undef, Str(FalseText), Str(TrueText)}}

NoPath == [present |-> FALSE, p |-> <<0, 0, <<>>>>]

NoReq ==
  [pc |-> "idle", upload |-> NoUpload, body |-> NoBody, filePath |-> NoPath,
   resp |-> NoResp, sent |-> 0, unlink |-> "none", logged |-> FALSE]

\* Variant: the extension is compared as it was sent.
fileFilterCaseSensitive(file) ==
  \/ file.mimetype = "application/x-step"
  \/ endsWith(file.originalname, DotIfc)

\* multer's fileFilter
fileFilter(file) ==
  \/ file.mimetype = "application/x-step"
  \/ endsWith(toLowerCase(file.originalname), DotIfc)

\* multer.diskStorage's filename: `${Date.now()}-${random}-${originalname}`
filename(t, rnd, originalname) == <<t, rnd, originalname>>

\* limits.fileSize: a file part longer than the limit is refused.
TooLarge(file) == file.size > FileSizeLimit

OnlyIfcMsg == "Only IFC files are allowed"
NoFileMsg ==
  "No IFC file uploaded. Please upload a file with field name 'ifc'"

\* Variant: upload.any(), which takes a file part under every field name.
UploadErrorAnyField(file) ==
  IF file = NoUpload THEN NoError
  ELSE IF ~fileFilter(file) THEN ApiError(OnlyIfcMsg, 400)
  ELSE IF TooLarge(file) THEN MulterError("File too large")
  ELSE NoError

\* The error upload.single("ifc") passes on instead of staging the file, or
\* NoError when it stages the file or finds no file part at all.
UploadError(file) ==
  IF file = NoUpload THEN NoError
  ELSE IF file.field # "ifc" THEN MulterError("Unexpected field")
  ELSE IF ~fileFilter(file) THEN ApiError(OnlyIfcMsg, 400)
  ELSE IF TooLarge(file) THEN MulterError("File too large")
  ELSE NoError

\* options.name of the two versions of the route.
OptionsName(variant, body, originalname) ==
  IF variant = 1
  THEN IF body.name.present /\ body.name.v # <<>>
       THEN body.name.v
       ELSE replace(originalname, DotIfc, <<>>)
  ELSE IF body.name.present
       THEN body.name.v
       ELSE replace(originalname, DotIfc, <<>>)

\* Variant: the field is read as a flag, Boolean(req.body.coordinateToOrigin).
OptionsCoordinateToOriginFlag(body) ==
  body.coordinateToOrigin.present /\ body.coordinateToOrigin.v # <<>>

\* options.coordinateToOrigin: req.body.coordinateToOrigin !== "false"
OptionsCoordinateToOrigin(body) ==
  ~(body.coordinateToOrigin.present /\ body.coordinateToOrigin.v = FalseText)

RouteOptions(variant, body, originalname) ==
  [name |-> Str(OptionsName(variant, body, originalname)),
   coordinateToOrigin |-> Bool(OptionsCoordinateToOrigin(body))]

\* Variant: the download is named by options.name alone.
SuccessResponseNoSuffix(options, result) ==
  [NoResp EXCEPT !.code = 200, !.kind = "binary",
                 !.filename = options.name.v,
                 !.contentLength = Len(result.data),
                 !.body = result.data,
                 !.metadata = result.metadata]

\* res.set({...}) and res.send(Buffer.from(result.data))
SuccessResponse(options, result) ==
  [NoResp EXCEPT !.code = 200, !.kind = "binary",
                 !.filename = options.name.v \o <<".", "f", "r", "a", "g">>,
                 !.contentLength = Len(result.data),
                 !.body = result.data,
                 !.metadata = result.metadata]

\* Variant: the handler ends without a finally block.
FinallyPcSkipped(filePath) == "done"

\* A character that Node refuses in a header value.
NonLatin1 == "U+4E2D"
HeaderErrorMsg == "Invalid character in header content"

\* res.set() accepts the value: none of its characters is refused.
HeaderWritable(value) == \A i \in 1..Len(value) : value[i] # NonLatin1

\* Variant: the handler has no catch around res.set().
RespondUncaught(options, result, env) ==
  IF HeaderWritable(options.name.v)
  THEN SuccessResponse(options, result)
  ELSE NoResp

\* The end of the try block: res.set() and res.send(), or, when res.set()
\* throws on the name, the catch block's next(error).
Respond(options, result, env) ==
  IF HeaderWritable(options.name.v)
  THEN SuccessResponse(options, result)
  ELSE errorHandler(PlainError(HeaderErrorMsg), env)

\* Variant: the finally block deletes without looking at filePath.
FinallyPcAlways(filePath) == "deleting"

\* The finally block: deletion is started only for a staged file.
FinallyPc(filePath) == IF filePath.present THEN "deleting" ELSE "done"

Store(path, file) ==
  [q \in DOMAIN disk \cup {path} |-> IF q = path THEN file ELSE disk[q]]

\* Variant: the clean-up empties the staging directory.
RemoveAll(path) == [q \in {} |-> NoData]

\* unlink(path)
Remove(path) == [q \in DOMAIN disk \ {path} |-> disk[q]]

\* POST /api/convert arrives: upload.single("ifc") parses the form and the
\* handler runs up to its first await.
Receive(r, file, rnd) ==
  /\ req[r].pc = "idle"
  /\ LET e == UploadError(file)
         path == filename(now, rnd, file.originalname)
     IN IF e # NoError
        THEN /\ req' = [req EXCEPT ![r] =
                          [@ EXCEPT !.pc = "done", !.upload = file,
                                    !.sent = @ + 1,
                                    !.resp = errorHandler(e, nodeEnv)]]
             /\ UNCHANGED disk
        ELSE IF file = NoUpload
        THEN /\ req' = [req EXCEPT ![r] =
                          [@ EXCEPT !.pc = FinallyPc(NoPath),
                                    !.upload = file,
                                    !.sent = @ + 1,
                                    !.resp = errorHandler(
                                      ApiError(NoFileMsg, 400),
                                      nodeEnv)]]
             /\ UNCHANGED disk
        ELSE /\ disk' = Store(path, [owner |-> r, size |-> file.size])
             /\ req' = [req EXCEPT ![r] =
                          [@ EXCEPT !.pc = "reading", !.upload = file,
                                    !.filePath = [present |-> TRUE,
                                                  p |-> path]]]
  /\ UNCHANGED <<converterVars, conv, now, statusProbe, errVars, envVars, proc>>

\* readFileAsUint8Array settles and the handler runs up to its next await:
\* the options are read from the form and convert() is called.
ReadDone(r, body, ioFault) ==
  /\ req[r].pc = "reading"
  /\ LET path == req[r].filePath.p
         options == RouteOptions(routeVariant, body, req[r].upload.originalname)
     IN IF ioFault \/ path \notin DOMAIN disk
        THEN /\ req' = [req EXCEPT ![r] =
                          [@ EXCEPT !.pc = FinallyPc(req[r].filePath),
                                    !.sent = @ + 1,
                                    !.resp = errorHandler(
                                      PlainError("readFile failed"), nodeEnv)]]
             /\ UNCHANGED <<conv, engineSetting>>
        ELSE /\ ConvertCall(r, disk[path], options)
             /\ req' = [req EXCEPT ![r] =
                          IF NotInitialized(ifcImporter)
                          THEN [@ EXCEPT !.pc = FinallyPc(req[r].filePath),
                                         !.body = body,
                                         !.sent = @ + 1,
                                         !.resp = errorHandler(
                                           PlainError(NotInitializedMsg),
                                           nodeEnv)]
                          ELSE [@ EXCEPT !.pc = "converting", !.body = body]]
  /\ UNCHANGED <<ifcImporter, constructed, lastOp, now, disk, statusProbe,
                 errVars, envVars, proc>>

\* process() resolves: convert() returns and the handler sends the binary
\* response, then starts the finally block.
HandlerResolve(r, out) ==
  /\ req[r].pc = "converting"
  /\ conv[r].st = "inflight"
  /\ conv' = [conv EXCEPT ![r] = ConvertResolved(r, out)]
  /\ req' = [req EXCEPT ![r] =
               [@ EXCEPT !.pc = FinallyPc(req[r].filePath),
                         !.sent = @ + 1,
                         !.resp = Respond(conv[r].options,
                                          ConvertResolved(r, out).result,
                                          nodeEnv)]]
  /\ engineSetting' = Collect(engineSetting, ifcImporter, conv')
  /\ UNCHANGED <<ifcImporter, constructed, lastOp, now, disk, statusProbe,
                 errVars, envVars, proc>>

\* Variant: the route gives the handle up when the engine fails.
HandlerRejectReset(r, m) ==
  /\ req[r].pc = "converting"
  /\ conv[r].st = "inflight"
  /\ conv' = [conv EXCEPT ![r] = ConvertRejected(r, m)]
  /\ req' = [req EXCEPT ![r] =
               [@ EXCEPT !.pc = FinallyPc(req[r].filePath),
                         !.sent = @ + 1,
                         !.resp = errorHandler(
                           PlainError(ConvertRejected(r, m).error), nodeEnv)]]
  /\ ifcImporter' = 0
  /\ engineSetting' = Collect(engineSetting, 0, conv')
  /\ UNCHANGED <<constructed, lastOp, now, disk, statusProbe,
                 errVars, envVars, proc>>

\* process() rejects: convert() throws and the catch block calls next(error).
HandlerReject(r, m) ==
  /\ req[r].pc = "converting"
  /\ conv[r].st = "inflight"
  /\ conv' = [conv EXCEPT ![r] = ConvertRejected(r, m)]
  /\ req' = [req EXCEPT ![r] =
               [@ EXCEPT !.pc = FinallyPc(req[r].filePath),
                         !.sent = @ + 1,
                         !.resp = errorHandler(
                           PlainError(ConvertRejected(r, m).error), nodeEnv)]]
  /\ engineSetting' = Collect(engineSetting, ifcImporter, conv')
  /\ UNCHANGED <<ifcImporter, constructed, lastOp, now, disk, statusProbe,
                 errVars, envVars, proc>>

\* Variant: deleteTempFile rethrows what it logged, and the rejection of the
\* handler reaches the error handler.
ResponseAfterDeleteEscalated(resp, outcome, env) ==
  IF outcome = "failed"
  THEN errorHandler(PlainError("unlink failed"), env)
  ELSE resp

\* What the client has once deleteTempFile has settled: its catch block
\* keeps every error of unlink, so the response already handed off stands.
ResponseAfterDelete(resp, outcome, env) == resp

\* deleteTempFile: unlink settles.  ENOENT is ignored, any other error is
\* logged, and nothing is thrown.
UnlinkDone(r, ioFault) ==
  /\ req[r].pc = "deleting"
  /\ LET path == req[r].filePath.p
     IN IF path \notin DOMAIN disk
        THEN /\ req' = [req EXCEPT ![r] =
                          [@ EXCEPT !.pc = "done", !.unlink = "ENOENT",
                                    !.resp = ResponseAfterDelete(
                                               @, "ENOENT", nodeEnv)]]
             /\ UNCHANGED disk
        ELSE IF ioFault
        THEN /\ req' = [req EXCEPT ![r] =
                          [@ EXCEPT !.pc = "done", !.unlink = "failed",
                                    !.logged = TRUE,
                                    !.resp = ResponseAfterDelete(
                                               @, "failed", nodeEnv)]]
             /\ UNCHANGED disk
        ELSE /\ req' = [req EXCEPT ![r] =
                          [@ EXCEPT !.pc = "done", !.unlink = "ok",
                                    !.resp = ResponseAfterDelete(
                                               @, "ok", nodeEnv)]]
             /\ disk' = Remove(path)
  /\ UNCHANGED <<converterVars, conv, now, statusProbe, errVars, envVars, proc>>

\* The 'ready' field of GET /api/status.
StatusReady(imp) == TRUE

\* GET /api/status
GetStatus ==
  /\ statusProbe' = [asked |-> TRUE, ready |-> StatusReady(ifcImporter),
                     converterReady |-> ifcImporter # 0]
  /\ UNCHANGED <<converterVars, conv, now, req, disk, errVars, envVars, proc>>

\* ------------------------------------------------------------------ index

Signals == {"SIGTERM", "SIGINT"}

\* The process has not called process.exit().
Running == proc.exitCode = -1

\* Request r occupies a connection of the server: it was accepted, it has no
\* response yet and its client has not given the connection up.
Open(r) ==
  /\ req[r].pc # "idle"
  /\ req[r].resp = NoResp
  /\ r \notin proc.aborted

\* No connection is left.
Drained == \A r \in Requests : ~Open(r)

\* Variant: the callback of server.close() is run without waiting.
CloseEmittedAtOnce(server, drained) == server = "closing"

\* The server emits 'close', and runs the callback given to close(), once
\* close() was called and every connection has ended.
CloseEmitted(server, drained) == server = "closing" /\ drained

\* Variant: shutdown() arms no timer.
TimersAfterShutdownNone(n) == n

\* The armed timers after shutdown(): setTimeout(..., 10000) adds one.
TimersAfterShutdown(n) == n + 1

\* startServer(): initialize() settles; when it succeeded the server listens
\* and the signal handlers are registered, when it threw the process exits
\* with code 1.
StartServer(fault) ==
  /\ Running
  /\ proc.server = "none"
  /\ InitializeCall(fault)
  /\ proc' = IF InitError(fault, ifcImporter) = ""
             THEN [proc EXCEPT !.server = "listening"]
             ELSE [proc EXCEPT !.exitCode = 1]
  /\ UNCHANGED <<now, conv, httpVars, errVars, envVars>>

\* shutdown(signal): server.close(callback) and the 10 s timer.
Shutdown(signal) ==
  /\ Running
  /\ proc.server \in {"listening", "closing"}
  /\ proc.timers < MaxSignals
  /\ proc' = [proc EXCEPT !.server = "closing",
                          !.timers = TimersAfterShutdown(@)]
  /\ UNCHANGED <<converterVars, conv, now, httpVars, errVars, envVars>>

\* The callback of server.close(): cleanup(), then process.exit(0).
CloseCallback ==
  /\ Running
  /\ CloseEmitted(proc.server, Drained)
  /\ CleanupCall
  /\ proc' = [proc EXCEPT !.server = "closed", !.cleanedUp = TRUE,
                          !.exitCode = 0]
  /\ UNCHANGED <<conv, now, httpVars, errVars, envVars>>

\* process.on("uncaughtException"): the error is logged and
\* shutdown("uncaughtException") is called.
UncaughtException ==
  /\ Running
  /\ proc.server \in {"listening", "closing"}
  /\ proc.timers < MaxSignals
  /\ proc' = [proc EXCEPT !.logged = @ \cup {"uncaughtException"},
                          !.server = "closing",
                          !.timers = TimersAfterShutdown(@)]
  /\ UNCHANGED <<converterVars, conv, now, httpVars, errVars, envVars>>

\* process.on("unhandledRejection"): the reason is logged.
UnhandledRejection ==
  /\ Running
  /\ proc.server \in {"listening", "closing"}
  /\ proc' = [proc EXCEPT !.logged = @ \cup {"unhandledRejection"}]
  /\ UNCHANGED <<converterVars, conv, now, httpVars, errVars, envVars>>

\* A timer of shutdown() runs out: process.exit(1).
ForceExit ==
  /\ Running
  /\ proc.timers > 0
  /\ proc' = [proc EXCEPT !.exitCode = 1]
  /\ UNCHANGED <<converterVars, conv, now, httpVars, errVars, envVars>>

\* The client of request r closes its connection before it has a response;
\* the handler of the request goes on.
ClientAbort(r) ==
  /\ Running
  /\ Open(r)
  /\ proc' = [proc EXCEPT !.aborted = @ \cup {r}]
  /\ UNCHANGED <<converterVars, conv, now, httpVars, errVars, envVars>>

\* ------------------------------------------------------------ error handler

StatusCodes == {0, 400, 404, 413, 500}
StatusTexts == {"", "fail", "error", "413"}
ErrorNames == {"Error", "MulterError", "SyntaxError"}

\* The error objects of interface AppError.  A status of "413" stands for
\* the numeric status that http-errors gives the errors of express.json().
AppErrors ==
  {MkError(n, "m", c, t, o, b) :
     n \in ErrorNames, c \in StatusCodes, t \in StatusTexts,
     o \in BOOLEAN, b \in BOOLEAN}

\* next(err) reaches errorHandler.
HandleError ==
  /\ errResp = NoResp
  /\ err # NoError
  /\ errResp' = errorHandler(err, nodeEnv)
  /\ UNCHANGED <<converterVars, conv, now, httpVars, err, envVars, proc>>

\* No route matches.
NotFound ==
  /\ errResp = NoResp
  /\ errResp' = notFoundHandler("/nonexistent")
  /\ UNCHANGED <<converterVars, conv, now, httpVars, err, envVars, proc>>

\* ------------------------------------------------------------ specifications

InitBase ==
  /\ nodeEnv \in {"production", "development"}
  /\ routeVariant \in {1, 2}
  /\ now = 0
  /\ ifcImporter = 0
  /\ constructed = 0
  /\ engineSetting = [e \in 1..MaxEngines |-> UndefB]
  /\ lastOp = [op |-> "none", wasReady |-> FALSE, err |-> ""]
  /\ conv = [c \in Callers |-> NoConv]
  /\ req = [r \in Clients |-> NoReq]
  /\ disk = [q \in {} |-> NoData]
  /\ statusProbe = [asked |-> FALSE, ready |-> FALSE, converterReady |-> FALSE]
  /\ errResp = NoResp
  /\ proc = NoProc

Init == InitBase /\ err = NoError

\* The HTTP service: requests, the shared converter and the staging directory.
Next ==
  \/ \E fault \in InitFaults : Initialize(fault)
  \/ Cleanup
  \/ \E r \in Requests, file \in Uploads, rnd \in 0..MaxRnd :
       Receive(r, file, rnd)
  \/ \E r \in Requests, body \in Bodies, ioFault \in BOOLEAN :
       ReadDone(r, body, ioFault)
  \/ \E r \in Requests, out \in Outputs : HandlerResolve(r, out)
  \/ \E r \in Requests, m \in EngineMsgs : HandlerReject(r, m)
  \/ \E r \in Requests, ioFault \in BOOLEAN : UnlinkDone(r, ioFault)
  \/ GetStatus

Spec == Init /\ [][Next]_vars

\* The converter service on its own, under callers that interleave freely.
InitConv == Init /\ nodeEnv = "production" /\ routeVariant = 1

NextConv ==
  \/ \E fault \in InitFaults : Initialize(fault)
  \/ Cleanup
  \/ \E c \in Direct, options \in DirectOptions : DirectConvert(c, options)
  \/ \E c \in Direct, out \in Outputs : DirectResolve(c, out)
  \/ \E c \in Direct, m \in EngineMsgs : DirectReject(c, m)
  \/ \E c \in Direct : DirectReturn(c)
  \/ Tick

SpecConv == InitConv /\ [][NextConv]_vars

\* The error-handling middleware on every error object.
InitErr == InitBase /\ routeVariant = 1 /\ err \in AppErrors

NextErr == HandleError \/ NotFound

SpecErr == InitErr /\ [][NextErr]_vars

\* The server process of index.ts: startServer(), the requests it serves
\* while it listens, the termination signals and the exit.
InitProc == Init

NextProc ==
  \/ \E fault \in InitFaults : StartServer(fault)
  \/ \E signal \in Signals : Shutdown(signal)
  \/ CloseCallback
  \/ ForceExit
  \/ \E r \in Requests : ClientAbort(r)
  \/ UncaughtException
  \/ UnhandledRejection
  \/ /\ Running
     /\ proc.server = "listening"
     /\ \E r \in Requests, file \in Uploads, rnd \in 0..MaxRnd :
          Receive(r, file, rnd)
  \/ /\ Running
     /\ \E r \in Requests, body \in Bodies, ioFault \in BOOLEAN :
          ReadDone(r, body, ioFault)
  \/ /\ Running
     /\ \E r \in Requests, out \in Outputs : HandlerResolve(r, out)
  \/ /\ Running
     /\ \E r \in Requests, m \in EngineMsgs : HandlerReject(r, m)
  \/ /\ Running
     /\ \E r \in Requests, ioFault \in BOOLEAN : UnlinkDone(r, ioFault)

SpecProc == InitProc /\ [][NextProc]_vars

\* The same process under the event loop, which runs an armed timer out
\* unless the process exits before.
SpecProcLive == SpecProc /\ WF_vars(ForceExit)

\* The server with two clients whose requests overlap, each uploading a
\* file of the same name.
PairUploads == {MkUpload("ifc", NameIfc, "application/octet-stream", 1)}
PairBodies == {NoBody, MkBody(Undef, Str(FalseText))}

InitPair == Init /\ nodeEnv = "production" /\ routeVariant = 2

NextPair ==
  \/ \E fault \in InitFaults : StartServer(fault)
  \/ Tick
  \/ /\ Running
     /\ proc.server = "listening"
     /\ \E r \in Clients, file \in PairUploads, rnd \in 0..MaxRnd :
          Receive(r, file, rnd)
  \/ \E r \in Clients, body \in PairBodies, ioFault \in BOOLEAN :
       ReadDone(r, body, ioFault)
  \/ \E r \in Clients, out \in Outputs : HandlerResolve(r, out)
  \/ \E r \in Clients, m \in EngineMsgs : HandlerReject(r, m)
  \/ \E r \in Clients, ioFault \in BOOLEAN : UnlinkDone(r, ioFault)

SpecPair == InitPair /\ [][NextPair]_vars

\* One request on every path of the handler: every upload, every form, a
\* name that cannot be written to a header, faults of the disk and of the
\* engine, and a converter that is Ready or not.
RespBodies == Bodies \cup {MkBody(Str(<<NonLatin1>>), Undef)}

NextResp ==
  \/ Initialize("none")
  \/ Cleanup
  \/ \E r \in Requests, file \in Uploads, rnd \in 0..MaxRnd :
       Receive(r, file, rnd)
  \/ \E r \in Requests, body \in RespBodies, ioFault \in BOOLEAN :
       ReadDone(r, body, ioFault)
  \/ \E r \in Requests, out \in Outputs : HandlerResolve(r, out)
  \/ \E r \in Requests, m \in EngineMsgs : HandlerReject(r, m)
  \/ \E r \in Requests, ioFault \in BOOLEAN : UnlinkDone(r, ioFault)

SpecResp == Init /\ [][NextResp]_vars

\* -------------------------------------------------------------- properties

\* The files on disk that request r staged.
FilesOf(r) == {q \in DOMAIN disk : disk[q].owner = r}

\* In this step caller c called convert().
ConvertCalled(c) == conv[c].st = "idle" /\ conv'[c].st # "idle"

\* This step is a call of initialize() in which the engine does not fail.
InitializeOkStep == Initialize("none")

\* This step is a call of cleanup().
CleanupStep == Cleanup

\* C1 (as stated): once a POST /api/convert request has completed, the file
\* it staged is absent from storage, on every path.
C1_StagedFileAbsent ==
  \A r \in Requests : req[r].pc = "done" => FilesOf(r) = {}

\* C1 (amended): once a POST /api/convert request has completed, deletion of
\* the file it staged has been attempted, and the file is absent from storage
\* unless that unlink failed with an error other than ENOENT, which was
\* logged; a request that staged nothing leaves nothing behind.
C1_StagedFileReleased ==
  \A r \in Requests :
    req[r].pc = "done" =>
      /\ req[r].filePath.present => req[r].unlink # "none"
      /\ FilesOf(r) # {} => req[r].unlink = "failed" /\ req[r].logged

\* A request whose conversion failed has completed and its file is gone.
C1_Witness ==
  \E r \in Requests :
    /\ req[r].pc = "done"
    /\ req[r].filePath.present
    /\ conv[r].st = "rejected"
    /\ conv[r].engine # 0
    /\ req[r].unlink = "ok"
    /\ req[r].filePath.p \notin DOMAIN disk

\* C2: convert() on an Uninitialized converter fails with the not-initialized
\* error: process() is not invoked, the shared setting is not changed, no
\* result is produced and the converter stays Uninitialized.
C2_UninitializedConvertFails ==
  [][\A c \in Callers :
       (ConvertCalled(c) /\ ifcImporter = 0) =>
         /\ conv'[c].st = "rejected"
         /\ conv'[c].error = NotInitializedMsg
         /\ conv'[c].engine = 0
         /\ ~conv'[c].result.produced
         /\ engineSetting' = engineSetting
         /\ ifcImporter' = 0]_vars

\* A call was refused that started after another call had resolved on an
\* engine: the converter had been initialized and cleaned up in between.
C2_Witness ==
  \E c, d \in Callers :
    /\ conv[c].st = "rejected"
    /\ conv[c].error = NotInitializedMsg
    /\ conv[d].st = "resolved"
    /\ conv[d].result.metadata.timestamp < conv[c].start

\* C3: a successful initialize() of an Uninitialized converter (after
\* cleanup() in particular) makes it Ready, and a convert() called on a Ready
\* converter is dispatched to the engine instead of being refused.
C3_ReinitializeAccepts ==
  [][/\ (InitializeOkStep /\ ifcImporter = 0) =>
          ifcImporter' # 0 /\ lastOp'.err = ""
     /\ \A c \in Callers :
          (ConvertCalled(c) /\ ifcImporter # 0) =>
            conv'[c].st = "inflight" /\ conv'[c].error = ""]_vars

\* A call is in flight on an engine constructed after a cleanup().
C3_Witness ==
  /\ lastOp.op = "initialize"
  /\ lastOp.err = ""
  /\ ~lastOp.wasReady
  /\ constructed >= 2
  /\ \E c \in Callers :
       conv[c].st = "inflight" /\ conv[c].engine = ifcImporter

\* C4: cleanup() leaves the converter Uninitialized and raises nothing; on
\* an Uninitialized converter it changes nothing, so repeating it has the
\* effect of calling it once.
C4_CleanupIdempotent ==
  [][CleanupStep =>
       /\ ifcImporter' = 0
       /\ lastOp'.err = ""
       /\ ifcImporter = 0 =>
            UNCHANGED <<ifcImporter, constructed, engineSetting, conv, now,
                        httpVars>>
       /\ UNCHANGED <<constructed, conv>>
       /\ \A e \in DOMAIN engineSetting :
            Reachable(e, 0, conv) => engineSetting'[e] = engineSetting[e]]_vars

\* cleanup() was called on a converter that an earlier cleanup() had released.
C4_Witness ==
  /\ lastOp.op = "cleanup"
  /\ ~lastOp.wasReady
  /\ constructed > 0
  /\ ifcImporter = 0

\* C5: initialize() on a Ready converter raises no error of its own, replaces
\* the handle by the newly constructed engine, whose setting is
\* origin-centering enabled, and every convert() called afterwards runs on
\* the handle that is current at the call.
C5_SecondInstanceActive ==
  [][/\ (InitializeOkStep /\ ifcImporter # 0) =>
          /\ lastOp'.err = ""
          /\ ifcImporter' # ifcImporter
          /\ ifcImporter' = constructed'
          /\ ifcImporter' > constructed
          /\ engineSetting'[ifcImporter'] = Bool(TRUE)
     /\ \A c \in Callers :
          (ConvertCalled(c) /\ ifcImporter # 0) =>
            conv'[c].engine = ifcImporter]_vars

\* A call started after a second initialize() runs on the second instance.
C5_Witness ==
  /\ lastOp.op = "initialize"
  /\ lastOp.err = ""
  /\ lastOp.wasReady
  /\ ifcImporter = constructed
  /\ \E c \in Callers :
       conv[c].st = "inflight" /\ conv[c].engine = ifcImporter

\* C6: a resolved convert() returns metadata whose size is the byte length
\* of the returned data, whose name and options are those of the call and
\* whose timestamp is no earlier than the start of the call.
C6_MetadataOfResult ==
  \A c \in Callers :
    conv[c].st = "resolved" =>
      /\ conv[c].result.produced
      /\ conv[c].result.metadata.size = Len(conv[c].result.data)
      /\ conv[c].result.metadata.name = conv[c].options.name
      /\ conv[c].result.metadata.options = conv[c].options
      /\ conv[c].result.metadata.timestamp >= conv[c].start

\* A call resolved later than it started, with output of another length than
\* its input and a name in its options.
C6_Witness ==
  \E c \in Callers :
    /\ conv[c].st = "resolved"
    /\ conv[c].result.metadata.timestamp > conv[c].start
    /\ Len(conv[c].result.data) # conv[c].ifcData.size
    /\ conv[c].options.name.present

\* C7: the 'ready' field of GET /api/status is true exactly when the
\* converter is Ready.
C7_StatusReportsReadiness ==
  statusProbe.asked => (statusProbe.ready <=> statusProbe.converterReady)

\* C8: every fault response has status "fail" exactly for the codes 400, 413
\* and 404 and "error" exactly for 500, and no other status, whatever error
\* reaches the handler.
C8_FaultShape ==
  errResp # NoResp =>
    /\ errResp.kind = "json"
    /\ errResp.message # ""
    /\ errResp.status \in {"fail", "error"}
    /\ errResp.status = "fail" <=> errResp.code \in {400, 413, 404}
    /\ errResp.status = "error" <=> errResp.code = 500

\* C9: an upload above the 100 MiB limit is answered with 413, the converter
\* is not invoked and no staged file remains.
C9_OversizeIs413 ==
  \A r \in Requests :
    (req[r].resp # NoResp /\ req[r].upload.field = "ifc"
       /\ fileFilter(req[r].upload) /\ TooLarge(req[r].upload)) =>
      /\ req[r].resp.code = 413
      /\ conv[r].st = "idle"
      /\ FilesOf(r) = {}

\* C10: a request whose convert() call failed is answered with 500, status
\* "error" and the message of the error convert() threw: the wrapped engine
\* message, or the not-initialized message.
C10_ServerFaultMessage ==
  \A r \in Requests :
    (req[r].resp # NoResp /\ conv[r].st = "rejected") =>
      /\ req[r].resp.code = 500
      /\ req[r].resp.status = "error"
      /\ req[r].resp.message = conv[r].error

\* C11: a POST /api/convert request without a file part, or with its file
\* under another field name than 'ifc', is answered with 400 and status
\* "fail"; without a file part the message is the one that names the field
\* 'ifc'; in both cases nothing is staged and convert() is not called.
C11_MissingFileIs400 ==
  \A r \in Requests :
    (req[r].pc # "idle"
       /\ (req[r].upload = NoUpload \/ req[r].upload.field # "ifc")) =>
      /\ req[r].resp.kind = "json"
      /\ req[r].resp.code = 400
      /\ req[r].resp.status = "fail"
      /\ req[r].upload = NoUpload => req[r].resp.message = NoFileMsg
      /\ conv[r].st = "idle"
      /\ ~req[r].filePath.present
      /\ FilesOf(r) = {}

\* A file sent under another field name was refused while the converter was
\* Ready.
C11_Witness ==
  \E r \in Requests :
    /\ req[r].pc = "done"
    /\ req[r].upload # NoUpload
    /\ req[r].upload.field # "ifc"
    /\ fileFilter(req[r].upload)
    /\ req[r].resp.code = 400
    /\ ifcImporter # 0

StripExtension(name) ==
  LET dots == {i \in 1..Len(name) : name[i] = "."}
  IN IF dots = {} THEN name
     ELSE SubSeq(name, 1, (CHOOSE i \in dots : \A j \in dots : j <= i) - 1)

\* C13: for every accepted upload options.name is the 'name' form field when
\* the form has one, and otherwise the original file name without its
\* extension, whatever name the filter accepted.
C13_NameFromFieldOrFile ==
  \A r \in Requests :
    conv[r].st # "idle" =>
      conv[r].options.name =
        Str(IF req[r].body.name.present
            THEN req[r].body.name.v
            ELSE StripExtension(req[r].upload.originalname))

\* C14: for every accepted upload options.coordinateToOrigin, and the value
\* echoed in the metadata of the response, is false exactly when the
\* 'coordinateToOrigin' form field is the string "false", and true when the
\* field is absent or has another value.
C14_CoordinateToOriginField ==
  \A r \in Requests :
    conv[r].st # "idle" =>
      LET expected == Bool(req[r].body.coordinateToOrigin # Str(FalseText))
      IN /\ conv[r].options.coordinateToOrigin = expected
         /\ req[r].resp.kind = "binary" =>
              req[r].resp.metadata.options.coordinateToOrigin = expected

\* A response whose metadata echoes coordinateToOrigin: false.
C14_Witness ==
  \E r \in Requests :
    /\ req[r].resp.kind = "binary"
    /\ req[r].body.coordinateToOrigin = Str(FalseText)
    /\ req[r].resp.metadata.options.coordinateToOrigin = Bool(FALSE)

\* C15: in every successful response the Content-Disposition file name is
\* the metadata's name followed by ".frag", and Content-Length is both the
\* number of bytes of the body and the metadata's size.
C15_ResponseConsistent ==
  \A r \in Requests :
    req[r].resp.kind = "binary" =>
      /\ req[r].resp.code = 200
      /\ req[r].resp.metadata.name.present
      /\ req[r].resp.filename =
           req[r].resp.metadata.name.v \o <<".", "f", "r", "a", "g">>
      /\ req[r].resp.contentLength = Len(req[r].resp.body)
      /\ req[r].resp.contentLength = req[r].resp.metadata.size

\* A successful response named by the form field, with a body that is not
\* empty and of another length than the upload.
C15_Witness ==
  \E r \in Requests :
    /\ req[r].resp.kind = "binary"
    /\ req[r].body.name = Str(<<"A">>)
    /\ req[r].resp.filename = <<"A", ".", "f", "r", "a", "g">>
    /\ Len(req[r].resp.body) > 0
    /\ Len(req[r].resp.body) # req[r].upload.size

\* The fault responses of a state: the one the middleware gave and the ones
\* the requests received.
FaultResponses ==
  {resp \in {errResp} \cup {req[r].resp : r \in Requests} : resp.kind = "json"}

\* C16: in production mode no fault response body has a stack trace, for
\* validation, upload, malformed-JSON, unmatched-route, conversion and
\* internal faults alike.
C16_NoStackInProduction ==
  nodeEnv = "production" => \A resp \in FaultResponses : ~resp.stack

\* In production an error without status code was answered with 500.
C16_Witness ==
  /\ nodeEnv = "production"
  /\ err.name = "Error"
  /\ err.statusCode = 0
  /\ ~err.isOperational
  /\ errResp.code = 500
  /\ errResp.message = "Internal server error"

\* C17: outside production mode every fault response body has the stack
\* trace next to status and message, for every kind of fault.
C17_StackInDevelopment ==
  nodeEnv # "production" => \A resp \in FaultResponses : resp.stack

\* C18: deletion of the staged file starts only once the request has its
\* response and its convert() call, if it made one, has settled; when
\* deleteTempFile settles the request ends with the response it already had,
\* whether unlink succeeded, found no file (ignored, not logged) or failed
\* (logged).
C18_DeleteFailureHidden ==
  [][\A r \in Requests :
       /\ req'[r].pc = "deleting" =>
            req'[r].resp # NoResp /\ conv'[r].st # "inflight"
       /\ (req[r].pc = "deleting" /\ req'[r].pc = "done") =>
            /\ req'[r].resp = req[r].resp
            /\ req'[r].unlink \in {"ok", "ENOENT", "failed"}
            /\ req'[r].logged <=> req'[r].unlink = "failed"]_vars

\* A request ended with its binary response although unlink failed.
C18_Witness ==
  \E r \in Requests :
    /\ req[r].pc = "done"
    /\ req[r].unlink = "failed"
    /\ req[r].logged
    /\ req[r].resp.kind = "binary"
    /\ FilesOf(r) # {}

C20_ShutdownExits ==
  /\ [](proc.exitCode = 0 =>
         /\ proc.server = "closed"
         /\ proc.cleanedUp
         /\ lastOp.op = "cleanup")
  /\ []((proc.exitCode = 1 /\ proc.server # "none") =>
         /\ proc.server = "closing"
         /\ proc.timers > 0
         /\ ~proc.cleanedUp)
  /\ (proc.server = "closing") ~> (proc.exitCode \in {0, 1})

\* After two signals a timer ended the process while a request was still
\* converting.
C20_Witness ==
  /\ proc.exitCode = 1
  /\ proc.timers = 2
  /\ \E r \in Requests : Open(r) /\ req[r].pc = "converting"

\* C21: an 'uncaughtException' and an 'unhandledRejection' are both logged
\* and both start the shutdown of a termination signal: once either was
\* logged, shutdown() has closed the server and armed its timer.
C21_FatalEventsShutDown ==
  proc.logged # {} => proc.server \in {"closing", "closed"} /\ proc.timers > 0

\* Call c is in flight on engine e.
InFlightOn(c, e) == conv[c].st = "inflight" /\ conv[c].engine = e

\* C23: the override of a convert() call is written to the configuration of
\* the one engine all calls share: when a call that supplies a value is
\* dispatched, every call in flight on that engine runs under the new
\* value from then on, and no later step of any call restores the old one.
C23_SharedSettingOverwritten ==
  [][\A d \in Callers :
       /\ (ConvertCalled(d) /\ conv'[d].st = "inflight"
              /\ conv'[d].options.coordinateToOrigin.present) =>
            \A c \in Callers \ {d} :
              InFlightOn(c, conv'[d].engine) =>
                engineSetting'[conv[c].engine] =
                  conv'[d].options.coordinateToOrigin
       /\ (conv[d].st = "inflight" /\ conv'[d].st # "inflight") =>
            \A c \in Callers \ {d} :
              conv[c].st = "inflight" =>
                engineSetting'[conv[c].engine] = engineSetting[conv[c].engine]]_vars

\* Two calls are in flight on one engine with different values of
\* coordinateToOrigin, and the shared setting is not the value of one of them.
C23_Witness ==
  \E c, d \in Callers :
    /\ InFlightOn(c, ifcImporter)
    /\ InFlightOn(d, ifcImporter)
    /\ conv[c].options.coordinateToOrigin = Bool(FALSE)
    /\ conv[d].options.coordinateToOrigin = Bool(TRUE)
    /\ engineSetting[ifcImporter] = Bool(TRUE)

\* C24: a convert() call whose options have no coordinateToOrigin is
\* dispatched, on an engine that initialize() configured completely, with
\* the setting origin-centering enabled, whatever calls came before.
C24_DefaultIsTrue ==
  [][\A c \in Callers :
       (ConvertCalled(c) /\ conv'[c].st = "inflight"
          /\ engineSetting[ifcImporter].present
          /\ ~conv'[c].options.coordinateToOrigin.present) =>
         engineSetting'[conv'[c].engine] = Bool(TRUE)]_vars

\* C27: a call in flight is not touched by cleanup() or initialize(): it
\* stays in flight on the engine it started with, and when that engine
\* finishes the call resolves with the engine's output and the metadata of
\* its own options, or is rejected with the engine's wrapped message, never
\* with the not-initialized error.
C27_InFlightKeepsHandle ==
  [][\A c \in Callers :
       conv[c].st = "inflight" =>
         /\ conv'[c].engine = conv[c].engine
         /\ conv'[c].options = conv[c].options
         /\ (ifcImporter' # ifcImporter) => conv'[c] = conv[c]
         /\ conv'[c].st \in {"inflight", "resolved", "rejected"}
         /\ conv'[c].st = "resolved" =>
              /\ conv'[c].result.produced
              /\ conv'[c].result.metadata.options = conv[c].options
              /\ conv'[c].result.metadata.size = Len(conv'[c].result.data)
         /\ conv'[c].st = "rejected" => conv'[c].error # NotInitializedMsg]_vars

\* A call resolved on an engine that was replaced while it was in flight:
\* another call had already started on a later engine.
C27_Witness ==
  \E c, d \in Callers :
    /\ conv[c].st = "resolved"
    /\ conv[d].st # "idle"
    /\ conv[d].engine > conv[c].engine
    /\ conv[c].engine > 0
    /\ conv[d].start < conv[c].result.metadata.timestamp

\* C28: after an initialize() that threw the converter is not Ready, whether
\* the constructor or a later configuration step threw and whether or not
\* the converter was Ready before.
C28_FailedInitializeNotReady ==
  (lastOp.op = "initialize" /\ lastOp.err # "") => ifcImporter = 0

\* C29: when convert() dispatches a call that supplies coordinateToOrigin,
\* the setting of the engine it is dispatched to is that value: the write
\* and the dispatch are one step.
C29_SettingAtDispatch ==
  [][\A c \in Callers :
       (ConvertCalled(c) /\ conv'[c].st = "inflight"
          /\ conv'[c].options.coordinateToOrigin.present) =>
         /\ conv'[c].engine = ifcImporter
         /\ ifcImporter' = ifcImporter
         /\ engineSetting'[conv'[c].engine] =
              conv'[c].options.coordinateToOrigin]_vars

\* A call with coordinateToOrigin: false was dispatched to an engine on which
\* a call with coordinateToOrigin: true is in flight.
C29_Witness ==
  \E c, d \in Callers :
    /\ InFlightOn(c, ifcImporter)
    /\ InFlightOn(d, ifcImporter)
    /\ conv[c].options.coordinateToOrigin = Bool(FALSE)
    /\ conv[d].options.coordinateToOrigin = Bool(TRUE)
    /\ engineSetting[ifcImporter] = Bool(FALSE)

\* C25: within a request the upload is staged, then read, then convert() is
\* called, then the response is produced, then deletion is attempted:
\* convert() is called only by a request that is reading a file it staged and
\* that is still on disk, with the bytes read from it; a binary response
\* follows a resolved convert(); deletion is attempted only for a request
\* that staged a file and has its response.
C25_StepsInOrder ==
  [][\A r \in Requests :
       /\ <<req[r].pc, req'[r].pc>> \in
            {<<"idle", "idle">>, <<"idle", "reading">>, <<"idle", "done">>,
             <<"reading", "reading">>, <<"reading", "converting">>,
             <<"reading", "deleting">>,
             <<"converting", "converting">>, <<"converting", "deleting">>,
             <<"deleting", "deleting">>, <<"deleting", "done">>,
             <<"done", "done">>}
       /\ (req[r].pc = "idle" /\ req'[r].pc = "reading") =>
            /\ req'[r].filePath.present
            /\ req'[r].filePath.p \in DOMAIN disk'
       /\ ConvertCalled(r) =>
            /\ req[r].pc = "reading"
            /\ req[r].filePath.present
            /\ req[r].resp = NoResp
            /\ req[r].filePath.p \in DOMAIN disk
            /\ conv'[r].ifcData = disk[req[r].filePath.p]
       /\ (req[r].resp = NoResp /\ req'[r].resp.kind = "binary") =>
            /\ req[r].pc = "converting"
            /\ conv'[r].st = "resolved"
       /\ (req[r].unlink = "none" /\ req'[r].unlink # "none") =>
            /\ req[r].pc = "deleting"
            /\ req[r].filePath.present
            /\ req[r].resp # NoResp
       /\ req'[r].pc = "deleting" => req'[r].filePath.present]_vars

\* A request went through every step: staged, read, converted, answered
\* with the binary response, and its file deleted.
C25_Witness ==
  \E r \in Requests :
    /\ req[r].pc = "done"
    /\ conv[r].st = "resolved"
    /\ req[r].resp.kind = "binary"
    /\ req[r].unlink = "ok"
    /\ FilesOf(r) = {}

\* C22: when the engine fails in a request, that request gets the 500 fault
\* response, the process keeps running and listening, the converter keeps
\* its handle and stays Ready, and the other request is not touched.
C22_ConversionFaultContained ==
  [][\A r \in Clients :
       (conv[r].st = "inflight" /\ conv'[r].st = "rejected") =>
         /\ req'[r].resp.kind = "json"
         /\ req'[r].resp.code = 500
         /\ req'[r].resp.status = "error"
         /\ ifcImporter' = ifcImporter
         /\ ifcImporter' # 0
         /\ proc' = proc
         /\ proc'.exitCode = -1
         /\ proc'.server = "listening"
         /\ \A s \in Clients \ {r} :
              req'[s] = req[s] /\ conv'[s] = conv[s]]_vars

\* One request got the 500 of a failed conversion and the other, whose
\* conversion started later on the same engine, got its binary response.
C22_Witness ==
  \E r, s \in Clients :
    /\ conv[r].st = "rejected"
    /\ req[r].resp.code = 500
    /\ conv[r].engine = ifcImporter
    /\ conv[s].engine = ifcImporter
    /\ conv[s].start > conv[r].start
    /\ req[s].resp.kind = "binary"

\* Request r has a staged path and is not done.
Live(r) == req[r].filePath.present /\ req[r].pc # "done"

\* No other request got the staging path of request r.
NoCollision(r) ==
  \A s \in Clients \ {r} :
    req[s].filePath.present => req[s].filePath.p # req[r].filePath.p

\* C26 (as stated): under every interleaving two live requests hold
\* different staging paths, the file at a request's path is its own until
\* it deletes it, and the bytes it converts are those it staged.
C26_StagingRequestScoped ==
  \A r \in Clients :
    /\ \A s \in Clients \ {r} :
         (Live(r) /\ Live(s)) => req[r].filePath.p # req[s].filePath.p
    /\ (req[r].pc \in {"reading", "converting", "deleting"}) =>
         /\ req[r].filePath.p \in DOMAIN disk
         /\ disk[req[r].filePath.p].owner = r
    /\ conv[r].st # "idle" => conv[r].ifcData.owner = r

\* C26 (amended): a staging path is the triple of Date.now(), the random
\* suffix and the original name, so two requests get the same path exactly
\* when they agree on all three; a request whose path no other request got
\* has its own file at that path from staging until its own clean-up, reads
\* and converts the bytes it staged, never finds its file gone, and its
\* clean-up removes that file and no other.
C26_OwnFileUnlessCollision ==
  [][\A r \in Clients :
       /\ \A s \in Clients \ {r} :
            (req[r].filePath.present /\ req[s].filePath.present
               /\ req[r].filePath.p = req[s].filePath.p) =>
              req[r].upload.originalname = req[s].upload.originalname
       /\ (req[r].filePath.present /\ NoCollision(r)) =>
            /\ (req[r].pc \in {"reading", "converting", "deleting"}) =>
                 /\ req[r].filePath.p \in DOMAIN disk
                 /\ disk[req[r].filePath.p].owner = r
            /\ conv[r].st # "idle" => conv[r].ifcData.owner = r
            /\ req[r].unlink # "ENOENT"
            /\ (req[r].unlink = "none" /\ req'[r].unlink = "ok") =>
                 DOMAIN disk' = DOMAIN disk \ {req[r].filePath.p}]_vars

\* One request has deleted its file while the other, staged under another
\* path at the same time, still has its own file to read.
C26_Witness ==
  \E r, s \in Clients :
    /\ req[r].pc = "done"
    /\ req[r].unlink = "ok"
    /\ req[s].pc = "reading"
    /\ req[s].filePath.p # req[r].filePath.p
    /\ req[s].filePath.p[1] = req[r].filePath.p[1]
    /\ req[s].filePath.p \in DOMAIN disk
    /\ disk[req[s].filePath.p].owner = s

\* C30: a request whose handler has reached its finally step, on whatever
\* path, has been handed exactly one response, the binary one or a JSON
\* fault; before that it has been handed none, and nothing is handed off
\* afterwards.
C30_ExactlyOneResponse ==
  \A r \in Requests :
    /\ req[r].pc \in {"idle", "reading", "converting"} =>
         req[r].sent = 0 /\ req[r].resp = NoResp
    /\ req[r].pc \in {"deleting", "done"} =>
         /\ req[r].sent = 1
         /\ req[r].resp.kind \in {"binary", "json"}
         /\ req[r].resp.kind = "binary" <=> req[r].resp.code = 200
         /\ req[r].resp.kind = "json" <=> req[r].resp.code >= 400

\* The engine finished, the name could not be written to a header, and the
\* request got the one fault response of the catch block.
C30_Witness ==
  \E r \in Requests :
    /\ req[r].pc = "done"
    /\ conv[r].st = "resolved"
    /\ ~HeaderWritable(conv[r].options.name.v)
    /\ req[r].sent = 1
    /\ req[r].resp.code = 500

====
